---- MODULE Spec2Model ----
(***************************************************************************)
(* The session timer engine of vr_timer.py: class TimerThread (the         *)
(* countdown loop running on its own thread) and the control operations    *)
(* the UI thread calls on it (start, pause, add_time, stop, and the app's  *)
(* stop_timer that wraps stop with a bounded join).                        *)
(*                                                                         *)
(* The loop thread and the caller thread share the fields of TimerThread   *)
(* without any lock, so every load and store of a shared field is a step   *)
(* of its own.  Program counters are named after the source line they      *)
(* stand at.                                                               *)
(***************************************************************************)
EXTENDS Integers, FiniteSets, Sequences, TLC

\* ---------------------------------------------------------------- bounds
\* how many add_time calls one session receives
MaxExtends == 1
\* how many one-second sleeps of the loop a session is followed for
MaxSeconds == 6
\* the same for the long sessions of SpecLong: a full minute
MaxSecondsLong == 60
\* how many times start() is called again on a started engine
MaxStartErrors == 1
\* how many one-second sleeps can end while the caller is inside one add_time
\* call (two attribute stores: the call lasts far less than a second); a
\* sleep that ended before the call began still interleaves its decrement
MaxSleepsInCall == 0

\* ------------------------------------------------------------- constants
\* vr_timer.py:132, 150, 154, 174: seconds per minute
SecondsPerMinute == 60
\* duration_minutes is a number (the app passes minutes + buffer_seconds/60):
\* it is represented in units of 1/DurationDen minute (half a second)
DurationDen == 2 * SecondsPerMinute
\* the durations sessions are constructed with, in 1/DurationDen minutes:
\* 2.5 s (truncates to 2 s), 5 min, 10 min
Durations == {5, 5 * DurationDen, 10 * DurationDen}
\* the minutes add_time is called with (the app's "+5 min" button passes 5)
ExtendMinutes == {1, 5}
\* the long sessions of SpecLong: 2.5 s, 5 min and 15 min, extended by 1 min
DurationsLong == {5, 5 * DurationDen, 15 * DurationDen}
ExtendMinutesLong == {1}
\* vr_timer.py:150 and 154: the warning thresholds, in minutes
WarnMinutes15 == 15
WarnMinutes5 == 5

Max(a, b) == IF a >= b THEN a ELSE b
Min(a, b) == IF a <= b THEN a ELSE b

\* int(x) rounding away from zero instead of toward it
IntAway(num, den) ==
    IF num >= 0 THEN (num + den - 1) \div den
                ELSE -((-num + den - 1) \div den)

\* Python's int(x) of the quotient num/den: truncation toward zero
IntTrunc(num, den) ==
    IF num >= 0 THEN num \div den ELSE -((-num) \div den)

\* vr_timer.py:132  int(duration_minutes * 60), duration_minutes = d/DurationDen
DurationSeconds(d) == IntTrunc(d * SecondsPerMinute, DurationDen)

\* lastTick before the first on_tick of a session
NoTick == 0 - 1

VARIABLES
    total_seconds,      \* TimerThread.total_seconds
    remaining_seconds,  \* TimerThread.remaining_seconds
    running,            \* TimerThread.running
    paused,             \* TimerThread.paused
    stop_event,         \* TimerThread._stop_event is set
    pc,                 \* where the loop thread stands in run()
    dec_tmp,            \* run(): the value loaded by `remaining_seconds -= 1`
    tick_rem,           \* run(): first argument loaded for on_tick, line 158
    cpc,                \* where the caller (UI thread) stands
    add_m,              \* add_time: its argument `minutes`
    add_r,              \* add_time: remaining_seconds loaded at line 174
    add_x,              \* add_time: the value of max() at line 175
    timer_thread,       \* VRTimerApp.timer_thread still refers to the engine
    duration_minutes,   \* the constructor's argument, in 1/DurationDen minutes
    nExtends,           \* add_time calls made so far (at most MaxExtends)
    nSeconds,           \* one-second sleeps completed (at most the horizon)
    sleepsInCall,       \* of these, during the current add_time call
    \* ---- the observer's side: what the callbacks have received
    lastEv,             \* the last event delivered: none, w15, w5, tick, finish
    nFinish,            \* number of on_finish calls
    nTicks,             \* number of on_tick calls
    nStartErrors,       \* RuntimeErrors start() has raised to the caller
    evAfterStop,        \* events delivered since stop() set the event (0..2)
    lastTick,           \* `remaining` of the last on_tick, NoTick before any
    extSinceTick,       \* add_time stored remaining_seconds since line 158
                        \* last loaded it
    tickExt,            \* extSinceTick as it was when line 158 loaded tick_rem
    everFired,          \* thresholds on_warning has been called for
    raisedGE,           \* thresholds add_time has stored a value equal to
                        \* or above since their last warning
    stopEarly,          \* stop() came after start() and before any event
    addRaced            \* the loop stored remaining_seconds during the
                        \* current add_time call

engine == <<total_seconds, remaining_seconds, running, paused, stop_event>>
loopv == <<pc, dec_tmp, tick_rem>>
callv == <<cpc, add_m, add_r, add_x, timer_thread, duration_minutes, nExtends>>
timev == <<nSeconds, sleepsInCall>>
evv == <<lastEv, nFinish, nTicks, nStartErrors, evAfterStop>>
tickv == <<lastTick, extSinceTick, tickExt>>
warnv == <<everFired, raisedGE>>
histv == <<stopEarly, addRaced>>
obsv == <<evv, tickv, warnv, histv>>
vars == <<engine, loopv, callv, timev, obsv>>

\* vr_timer.py:150 and 154: 15 * 60 and 5 * 60
Warn15 == WarnMinutes15 * SecondsPerMinute
Warn5 == WarnMinutes5 * SecondsPerMinute
Thresholds == {Warn15, Warn5}

\* ------------------------------------------------------------------ Init
\* TimerThread.__init__ (vr_timer.py:130-140), for a duration in `durations`
InitWith(durations) ==
    /\ duration_minutes \in durations
    /\ total_seconds = DurationSeconds(duration_minutes)
    /\ remaining_seconds = total_seconds
    /\ running = FALSE
    /\ paused = FALSE
    /\ stop_event = FALSE
    /\ pc = "idle"
    /\ dec_tmp = 0
    /\ tick_rem = 0
    /\ cpc = "idle"
    /\ add_m = 0
    /\ add_r = 0
    /\ add_x = 0
    /\ timer_thread = TRUE
    /\ nExtends = 0
    /\ nSeconds = 0
    /\ sleepsInCall = 0
    /\ lastEv = "none"
    /\ nFinish = 0
    /\ nTicks = 0
    /\ nStartErrors = 0
    /\ evAfterStop = 0
    /\ lastTick = NoTick
    /\ extSinceTick = FALSE
    /\ tickExt = FALSE
    /\ everFired = {}
    /\ raisedGE = {}
    /\ stopEarly = FALSE
    /\ addRaced = FALSE

Init == InitWith(Durations)

\* -------------------------------------------------- the observer's view
\* a callback is invoked: the observer receives event `kind`
Deliver(kind) ==
    /\ lastEv' = kind
    /\ evAfterStop' = IF stop_event THEN Min(evAfterStop + 1, 2)
                                    ELSE evAfterStop

\* on_warning is invoked for threshold t (vr_timer.py:151, 155)
DeliverWarning(kind, t) ==
    /\ Deliver(kind)
    /\ everFired' = everFired \cup {t}
    /\ raisedGE' = raisedGE \ {t}
    /\ UNCHANGED <<nFinish, nTicks, nStartErrors, tickv, histv>>

\* on_tick(r, total_seconds) is invoked (vr_timer.py:158, 165)
DeliverTick(r) ==
    /\ Deliver("tick")
    /\ lastTick' = r
    /\ nTicks' = nTicks + 1
    /\ UNCHANGED <<nFinish, nStartErrors, extSinceTick, tickExt, warnv, histv>>

\* a step of the loop that calls no callback and stores no shared field
LoopGoto(target) ==
    /\ pc' = target
    /\ UNCHANGED <<engine, dec_tmp, tick_rem, callv, timev, obsv>>

\* the caller is inside add_time
InAddTime == cpc \in {"add174w", "add175r", "add175w"}

\* ------------------------------------------- TimerThread.run (142-168)
\* line 143: self.running = True
Run143 ==
    /\ pc = "run143"
    /\ running' = TRUE
    /\ pc' = "while144"
    /\ UNCHANGED <<total_seconds, remaining_seconds, paused, stop_event,
                   dec_tmp, tick_rem, callv, timev, obsv>>

\* line 144: while self.remaining_seconds > 0 and not self._stop_event.is_set()
While144 ==
    /\ pc = "while144"
    /\ LoopGoto(IF remaining_seconds > 0 /\ ~stop_event THEN "if145"
                                                         ELSE "if163")

\* line 145: if self.paused
If145 ==
    /\ pc = "if145"
    /\ LoopGoto(IF paused THEN "sleep146" ELSE "if150")

\* lines 146-147 with a `continue` that skips the test of line 144
Sleep146NoTest ==
    /\ pc = "sleep146"
    /\ LoopGoto("if145")

\* lines 146-147: time.sleep(0.1); continue
Sleep146 ==
    /\ pc = "sleep146"
    /\ LoopGoto("while144")

\* line 150: if self.remaining_seconds == 15 * 60
If150 ==
    /\ pc = "if150"
    /\ LoopGoto(IF remaining_seconds = Warn15 THEN "warn151" ELSE "if154")

\* line 151: self.on_warning(15)
Warn151 ==
    /\ pc = "warn151"
    /\ DeliverWarning("w15", Warn15)
    /\ pc' = "if154"
    /\ UNCHANGED <<engine, dec_tmp, tick_rem, callv, timev>>

\* line 154: if self.remaining_seconds == 5 * 60
If154 ==
    /\ pc = "if154"
    /\ LoopGoto(IF remaining_seconds = Warn5 THEN "warn155" ELSE "tick158r")

\* line 155: self.on_warning(5)
Warn155 ==
    /\ pc = "warn155"
    /\ DeliverWarning("w5", Warn5)
    /\ pc' = "tick158r"
    /\ UNCHANGED <<engine, dec_tmp, tick_rem, callv, timev>>

\* line 158 with the arguments of on_tick swapped
Tick158LoadSwapped ==
    /\ pc = "tick158r"
    /\ tick_rem' = total_seconds
    /\ tickExt' = extSinceTick
    /\ extSinceTick' = FALSE
    /\ pc' = "tick158"
    /\ UNCHANGED <<engine, dec_tmp, callv, timev, evv, lastTick, warnv, histv>>

\* line 158: the first argument of on_tick, self.remaining_seconds, is loaded
Tick158Load ==
    /\ pc = "tick158r"
    /\ tick_rem' = remaining_seconds
    /\ tickExt' = extSinceTick
    /\ extSinceTick' = FALSE
    /\ pc' = "tick158"
    /\ UNCHANGED <<engine, dec_tmp, callv, timev, evv, lastTick, warnv, histv>>

\* line 158: the second argument is loaded and on_tick is called
Tick158 ==
    /\ pc = "tick158"
    /\ DeliverTick(tick_rem)
    /\ pc' = "sleep160"
    /\ UNCHANGED <<engine, dec_tmp, tick_rem, callv, timev>>

\* line 160: time.sleep(1) returns
Sleep160(horizon) ==
    /\ pc = "sleep160"
    /\ nSeconds < horizon
    /\ InAddTime => sleepsInCall < MaxSleepsInCall
    /\ nSeconds' = nSeconds + 1
    /\ sleepsInCall' = IF InAddTime THEN sleepsInCall + 1 ELSE sleepsInCall
    /\ pc' = "dec161r"
    /\ UNCHANGED <<engine, dec_tmp, tick_rem, callv, obsv>>

\* line 161: self.remaining_seconds -= 1, the load
Dec161Load ==
    /\ pc = "dec161r"
    /\ dec_tmp' = remaining_seconds
    /\ pc' = "dec161w"
    /\ UNCHANGED <<engine, tick_rem, callv, timev, obsv>>

\* line 161 subtracting 2 instead of 1
Dec161StoreTwo ==
    /\ pc = "dec161w"
    /\ remaining_seconds' = dec_tmp - 2
    /\ dec_tmp' = 0
    /\ pc' = "while144"
    /\ addRaced' = (addRaced \/ InAddTime)
    /\ UNCHANGED <<total_seconds, running, paused, stop_event, tick_rem, callv,
                   timev, evv, tickv, warnv, stopEarly>>

\* line 161: self.remaining_seconds -= 1, the store
Dec161Store ==
    /\ pc = "dec161w"
    /\ remaining_seconds' = dec_tmp - 1
    /\ dec_tmp' = 0
    /\ pc' = "while144"
    /\ addRaced' = (addRaced \/ InAddTime)
    /\ UNCHANGED <<total_seconds, running, paused, stop_event, tick_rem, callv,
                   timev, evv, tickv, warnv, stopEarly>>

\* line 163: if not self._stop_event.is_set()
If163 ==
    /\ pc = "if163"
    /\ LoopGoto(IF ~stop_event THEN "tick165" ELSE "clr168")

\* line 165: self.on_tick(0, self.total_seconds)
Tick165 ==
    /\ pc = "tick165"
    /\ DeliverTick(0)
    /\ pc' = "fin166"
    /\ UNCHANGED <<engine, dec_tmp, tick_rem, callv, timev>>

\* line 166: self.on_finish()
Fin166 ==
    /\ pc = "fin166"
    /\ Deliver("finish")
    /\ nFinish' = nFinish + 1
    /\ pc' = "clr168"
    /\ UNCHANGED <<engine, dec_tmp, tick_rem, callv, timev, nTicks,
                   nStartErrors, tickv, warnv, histv>>

\* line 168: self.running = False, and the thread ends
Clr168 ==
    /\ pc = "clr168"
    /\ running' = FALSE
    /\ pc' = "done"
    /\ UNCHANGED <<total_seconds, remaining_seconds, paused, stop_event,
                   dec_tmp, tick_rem, callv, timev, obsv>>

\* every step of run() but the one-second sleep
LoopSteps ==
    \/ Run143 \/ While144 \/ If145 \/ Sleep146 \/ If150 \/ Warn151 \/ If154
    \/ Warn155 \/ Tick158Load \/ Tick158 \/ Dec161Load \/ Dec161Store
    \/ If163 \/ Tick165 \/ Fin166 \/ Clr168

\* ------------------------------------------------ the caller (UI thread)
\* the caller holds the engine and is between two calls
CallerIdle == cpc = "idle" /\ timer_thread

\* Thread.start() (vr_timer.py:371): the loop thread begins run()
Start ==
    /\ CallerIdle
    /\ pc = "idle"
    /\ pc' = "run143"
    /\ UNCHANGED <<engine, dec_tmp, tick_rem, callv, timev, obsv>>

\* TimerThread.pause (170-171): self.paused = not self.paused
Pause ==
    /\ CallerIdle
    /\ paused' = ~paused
    /\ UNCHANGED <<total_seconds, remaining_seconds, running, stop_event,
                   loopv, callv, timev, obsv>>

\* TimerThread.add_time(minutes), line 174: remaining_seconds is loaded
AddTime174Load(minutes) ==
    /\ CallerIdle
    /\ nExtends < MaxExtends
    /\ add_m' \in minutes
    /\ add_r' = remaining_seconds
    /\ nExtends' = nExtends + 1
    /\ cpc' = "add174w"
    /\ addRaced' = FALSE
    /\ sleepsInCall' = 0
    /\ UNCHANGED <<engine, loopv, add_x, timer_thread, duration_minutes,
                   nSeconds, evv, tickv, warnv, stopEarly>>

\* line 174: remaining_seconds + minutes * 60 is stored
AddTime174Store ==
    /\ cpc = "add174w"
    /\ remaining_seconds' = add_r + add_m * SecondsPerMinute
    /\ cpc' = "add175r"
    /\ extSinceTick' = TRUE
    /\ raisedGE' = raisedGE \cup {t \in Thresholds : remaining_seconds' >= t}
    /\ UNCHANGED <<total_seconds, running, paused, stop_event, loopv, add_m,
                   add_r, add_x, timer_thread, duration_minutes, nExtends,
                   timev, evv, lastTick, tickExt, everFired, histv>>

\* line 175 as Scenario C expects it: total_seconds grows by the extension
AddTime175LoadSum ==
    /\ cpc = "add175r"
    /\ add_x' = total_seconds + add_m * SecondsPerMinute
    /\ cpc' = "add175w"
    /\ UNCHANGED <<engine, loopv, add_m, add_r, timer_thread, duration_minutes,
                   nExtends, timev, obsv>>

\* line 175: max(self.total_seconds, self.remaining_seconds) is evaluated
AddTime175Load ==
    /\ cpc = "add175r"
    /\ add_x' = Max(total_seconds, remaining_seconds)
    /\ cpc' = "add175w"
    /\ UNCHANGED <<engine, loopv, add_m, add_r, timer_thread, duration_minutes,
                   nExtends, timev, obsv>>

\* line 175: total_seconds is stored and add_time returns
AddTime175Store ==
    /\ cpc = "add175w"
    /\ total_seconds' = add_x
    /\ cpc' = "idle"
    /\ add_m' = 0
    /\ add_r' = 0
    /\ add_x' = 0
    /\ addRaced' = FALSE
    /\ sleepsInCall' = 0
    /\ UNCHANGED <<remaining_seconds, running, paused, stop_event, loopv,
                   timer_thread, duration_minutes, nExtends, nSeconds, evv,
                   tickv, warnv, stopEarly>>

\* the steps inside add_time after its first load
AddTimeSteps == AddTime174Store \/ AddTime175Load \/ AddTime175Store

\* the fields of the engine as one value
EngineFields ==
    [total_seconds |-> total_seconds,
     remaining_seconds |-> remaining_seconds,
     running |-> running,
     paused |-> paused,
     stop_event |-> stop_event]

\* stop() that flips the event instead of setting it
StopFieldsToggle(e) == [e EXCEPT !.stop_event = ~e.stop_event]

\* TimerThread.stop (177-178) as a function of the engine's fields:
\* self._stop_event.set() makes the event set, whatever it was
StopFields(e) == [e EXCEPT !.stop_event = TRUE]

\* TimerThread.stop (177-178): self._stop_event.set(); it returns at once.
\* VRTimerApp.stop_timer calls it at line 383.
Stop ==
    /\ CallerIdle
    /\ total_seconds' = StopFields(EngineFields).total_seconds
    /\ remaining_seconds' = StopFields(EngineFields).remaining_seconds
    /\ running' = StopFields(EngineFields).running
    /\ paused' = StopFields(EngineFields).paused
    /\ stop_event' = StopFields(EngineFields).stop_event
    /\ stopEarly' = (stopEarly
                      \/ (pc \notin {"idle", "done"} /\ lastEv = "none"))
    /\ UNCHANGED <<loopv, callv, timev, evv, tickv, warnv, addRaced>>

\* VRTimerApp.stop_timer after its call of stop(): the join returns, the app
\* drops the engine (line 385) and stop_timer returns
StopTimerReturn ==
    /\ CallerIdle
    /\ stop_event
    /\ pc # "idle"
    /\ timer_thread' = FALSE
    /\ UNCHANGED <<engine, loopv, cpc, add_m, add_r, add_x, duration_minutes,
                   nExtends, timev, obsv>>

\* line 384: join(timeout=0.5) returns because the loop thread has ended
Join384Ended ==
    /\ pc = "done"
    /\ StopTimerReturn

\* line 384: join(timeout=0.5) returns because 0.5 s have passed
Join384Timeout ==
    /\ pc # "done"
    /\ StopTimerReturn

\* --------------------------------------------------------- specifications
Next ==
    \/ LoopSteps
    \/ Sleep160(MaxSeconds)
    \/ Start
    \/ Pause
    \/ AddTime174Load(ExtendMinutes)
    \/ AddTimeSteps
    \/ Stop
    \/ Join384Ended
    \/ Join384Timeout

Spec == Init /\ [][Next]_vars

\* Long sessions, followed for a full minute, that the caller pauses, resumes
\* and extends but does not cancel.
InitLong == InitWith(DurationsLong)

NextLong ==
    \/ LoopSteps
    \/ Sleep160(MaxSecondsLong)
    \/ Start
    \/ Pause
    \/ AddTime174Load(ExtendMinutesLong)
    \/ AddTimeSteps

SpecLong == InitLong /\ [][NextLong]_vars

\* ------------------------------------------------------------ properties
\* the program counters at which the loop calls a callback
EventPcs == {"warn151", "warn155", "tick158", "tick165", "fin166"}

\* this step of the loop delivers an event to the observer
LoopEmits == pc \in EventPcs /\ pc' # pc

\* the threshold an on_warning event was delivered for
WarnedThreshold(ev) == IF ev = "w15" THEN Warn15 ELSE Warn5

\* C1: on_finish is delivered at most once and never after stop() has set
\* the stop event.
C1_FinishOnlyUncancelled ==
    [][(nFinish' # nFinish) => (~stop_event /\ nFinish = 0)]_vars

\* C2: when stop() is called after start() and before the loop has delivered
\* any event, the observer never receives an event.
C2_EarlyCancelSilent == stopEarly => lastEv = "none"

\* C3: at most one event is delivered after stop() has set the stop event.
C3_OneEventAfterCancel == evAfterStop <= 1

\* C4: once stop() has returned (and once stop_timer has returned and dropped
\* the engine), the loop wakes from no sleep, stores no decrement and delivers
\* no event.
C4_LoopStoppedOnReturn ==
    [][(stop_event \/ ~timer_thread) =>
          /\ nSeconds' = nSeconds
          /\ remaining_seconds' >= remaining_seconds
          /\ ~LoopEmits]_vars

\* C5: remaining_seconds does not decrease while the running session is
\* paused.
C5_NoDecreaseWhilePaused ==
    [][(running /\ paused) => remaining_seconds' >= remaining_seconds]_vars

\* C6: when add_time(m) returns in a non-terminal session, remaining_seconds
\* holds the value before the call plus m * 60, less at most the seconds that
\* can elapse during the call, and total_seconds is not below it.
C6_ExtendKept ==
    [][(/\ cpc = "add175w" /\ cpc' = "idle"
        /\ ~stop_event /\ nFinish = 0 /\ remaining_seconds > 0) =>
          /\ remaining_seconds' >=
                 add_r + add_m * SecondsPerMinute - (MaxSleepsInCall + 1)
          /\ total_seconds' >= remaining_seconds']_vars

\* the return of add_time(5) called at remaining_seconds = 595 on a session
\* constructed with 10 minutes
ScenarioC ==
    /\ cpc = "add175w" /\ cpc' = "idle"
    /\ duration_minutes = 10 * DurationDen
    /\ total_seconds = DurationSeconds(duration_minutes)
    /\ add_r = 595
    /\ add_m = 5

\* C7 as stated: Scenario C ends with remaining_seconds = 895 and
\* total_seconds = 900.
C7_ScenarioC_Stated ==
    [][ScenarioC => (remaining_seconds' = 895 /\ total_seconds' = 900)]_vars

\* C7: Scenario C ends with total_seconds at most 895 = max(600, 895), and,
\* when the loop stored nothing during the call, with remaining_seconds = 895
\* and total_seconds = 895.
C7_ScenarioC ==
    [][ScenarioC =>
          /\ total_seconds' <= 895
          /\ remaining_seconds' <= 895
          /\ ~addRaced => (remaining_seconds' = 895 /\ total_seconds' = 895)
      ]_vars

\* Scenario C has been played without interference: 895 / 895
C7_Witness ==
    /\ duration_minutes = 10 * DurationDen
    /\ nExtends = 1
    /\ cpc = "idle"
    /\ remaining_seconds = 895
    /\ total_seconds = 895

\* C8 as stated: every on_tick after the first reports less than the one
\* before it, whatever the caller interleaves.
C8_TicksDecrease_Stated ==
    [][/\ (pc = "tick158" /\ pc' = "sleep160" /\ lastTick # NoTick)
              => tick_rem < lastTick
       /\ (pc = "tick165" /\ pc' = "fin166" /\ lastTick # NoTick)
              => 0 < lastTick]_vars

\* C8: every on_tick after the first reports less than the one before it,
\* unless add_time stored remaining_seconds between the two loads of line
\* 158; the final on_tick(0) follows a positive one.
C8_TicksDecrease ==
    [][/\ (pc = "tick158" /\ pc' = "sleep160" /\ lastTick # NoTick /\ ~tickExt)
              => tick_rem < lastTick
       /\ (pc = "tick165" /\ pc' = "fin166" /\ lastTick # NoTick)
              => 0 < lastTick]_vars

\* a second tick has been delivered after an extension was already reported,
\* and it reports less than the extended tick before it
C8_Witness ==
    /\ pc = "sleep160"
    /\ nExtends = 1
    /\ cpc = "idle"
    /\ ~tickExt
    /\ lastTick > DurationSeconds(duration_minutes)
    /\ lastTick < remaining_seconds + 2
    /\ nSeconds >= 2

\* C9: between two on_warning(t) of a session an add_time stored a
\* remaining_seconds equal to or above t.
C9_WarningOnce ==
    [][/\ (pc = "warn151" /\ pc' # pc /\ Warn15 \in everFired)
              => Warn15 \in raisedGE
       /\ (pc = "warn155" /\ pc' # pc /\ Warn5 \in everFired)
              => Warn5 \in raisedGE]_vars

\* C10: the event delivered after an on_warning is the on_tick of the same
\* iteration, and it reports the threshold warned for.
C10_WarningThenTick ==
    [][(LoopEmits /\ lastEv \in {"w15", "w5"}) =>
          (lastEv' = "tick" /\ lastTick' = WarnedThreshold(lastEv))]_vars

\* ------------------------------------------------------------ Scenario A
\* a one-minute session that is started and then left alone
ScenarioADuration == 1 * DurationDen

InitA == InitWith({ScenarioADuration})

\* the steps of run() a session takes that is never paused and never
\* reaches a warning threshold
NextA ==
    \/ Start
    \/ Run143
    \/ While144
    \/ If145
    \/ If150
    \/ If154
    \/ Tick158Load
    \/ Tick158
    \/ Sleep160(MaxSecondsLong)
    \/ Dec161Load
    \/ Dec161Store
    \/ If163
    \/ Tick165
    \/ Fin166
    \/ Clr168

SpecA == InitA /\ [][NextA]_vars

\* C11 as stated: the left-alone one-minute session delivers 60 on_tick
\* calls reporting 59 down to 0, then on_finish once, and no on_warning.
C11_ScenarioA_Stated ==
    [][/\ (pc = "tick158" /\ pc' # pc)
              => tick_rem = total_seconds - 1 - nTicks
       /\ (pc = "tick165" /\ pc' # pc) => nTicks = total_seconds - 1
       /\ (pc = "fin166" /\ pc' # pc)
              => (nTicks = total_seconds /\ nFinish = 0 /\ everFired = {})
      ]_vars

\* C11: the left-alone one-minute session delivers 61 on_tick calls
\* reporting 60 down to 0 (one before each second and the final one), then
\* on_finish once, and no on_warning; it is never in the pause branch.
C11_ScenarioA ==
    [][/\ (pc = "tick158" /\ pc' # pc)
              => (tick_rem = total_seconds - nTicks /\ tick_rem > 0)
       /\ (pc = "tick165" /\ pc' # pc) => nTicks = total_seconds
       /\ (pc = "fin166" /\ pc' # pc)
              => (/\ nTicks = total_seconds + 1
                  /\ lastTick = 0
                  /\ nFinish = 0
                  /\ everFired = {})
       /\ pc' \notin {"sleep146", "warn151", "warn155"}
       /\ total_seconds' = SecondsPerMinute
      ]_vars

\* Scenario A has run to its end: 61 ticks, one finish
C11_Witness ==
    /\ pc = "done"
    /\ duration_minutes = ScenarioADuration
    /\ nTicks = SecondsPerMinute + 1
    /\ lastTick = 0
    /\ nFinish = 1
    /\ ~running

\* ---------------------------------------------------------- construction
\* the largest duration (in 1/DurationDen minutes) an engine is constructed
\* with in SpecNew; the negated value is the smallest
MaxDurationNew == 12

\* zero, negative and positive durations, whole and fractional seconds
DurationsNew == (0 - MaxDurationNew)..MaxDurationNew

\* before __init__ has run the object has no fields: the flags hold any
\* value, the two counters none
InitNew ==
    /\ duration_minutes \in DurationsNew
    /\ total_seconds = NoTick
    /\ remaining_seconds = NoTick
    /\ running \in BOOLEAN
    /\ paused \in BOOLEAN
    /\ stop_event \in BOOLEAN
    /\ pc = "new"
    /\ dec_tmp = 0
    /\ tick_rem = 0
    /\ cpc = "idle"
    /\ add_m = 0
    /\ add_r = 0
    /\ add_x = 0
    /\ timer_thread = FALSE
    /\ nExtends = 0
    /\ nSeconds = 0
    /\ sleepsInCall = 0
    /\ lastEv = "none"
    /\ nFinish = 0
    /\ nTicks = 0
    /\ nStartErrors = 0
    /\ evAfterStop = 0
    /\ lastTick = NoTick
    /\ extSinceTick = FALSE
    /\ tickExt = FALSE
    /\ everFired = {}
    /\ raisedGE = {}
    /\ stopEarly = FALSE
    /\ addRaced = FALSE

\* TimerThread.__init__ (130-140), as start_timer calls it at lines 365-370
New ==
    /\ pc = "new"
    /\ total_seconds' = DurationSeconds(duration_minutes)
    /\ remaining_seconds' = total_seconds'
    /\ running' = FALSE
    /\ paused' = FALSE
    /\ stop_event' = FALSE
    /\ timer_thread' = TRUE
    /\ pc' = "idle"
    /\ UNCHANGED <<dec_tmp, tick_rem, cpc, add_m, add_r, add_x,
                   duration_minutes, nExtends, timev, obsv>>

\* construction, start and the run of a session nobody pauses
NextNew ==
    \/ New
    \/ Start
    \/ Run143
    \/ While144
    \/ If145
    \/ If150
    \/ If154
    \/ Tick158Load
    \/ Tick158
    \/ Sleep160(MaxSeconds)
    \/ Dec161Load
    \/ Dec161Store
    \/ If163
    \/ Tick165
    \/ Fin166
    \/ Clr168

SpecNew == InitNew /\ [][NextNew]_vars

\* floor(d * 60) for d = duration_minutes / DurationDen minutes
FloorSeconds(d) == (d * SecondsPerMinute) \div DurationDen

\* C12: constructing an engine with a duration d > 0 yields total_seconds =
\* remaining_seconds = floor(d * 60), not running, not paused, not cancelled.
C12_Construction ==
    [][(pc = "new" /\ pc' # pc /\ duration_minutes > 0) =>
          /\ total_seconds' = FloorSeconds(duration_minutes)
          /\ remaining_seconds' = FloorSeconds(duration_minutes)
          /\ ~running'
          /\ ~paused'
          /\ ~stop_event'
          /\ pc' = "idle"]_vars

\* an engine constructed with 2.5 seconds holds 2 / 2 and is at rest, though
\* its flags held other values before
C12_Witness ==
    /\ pc = "idle"
    /\ duration_minutes = 5
    /\ total_seconds = 2
    /\ remaining_seconds = 2
    /\ ~running /\ ~paused /\ ~stop_event

\* C18: an engine whose total_seconds is below 1 never runs its loop and
\* delivers no on_tick and no on_finish.
C18_ShortDurationRejected ==
    (pc # "new" /\ total_seconds < 1) =>
        (pc = "idle" /\ nTicks = 0 /\ nFinish = 0)

\* ------------------------------------------- extension and pause contracts
\* C14: on_finish is delivered only while remaining_seconds is exactly 0.
C14_FinishAtZero == [][(nFinish' # nFinish) => remaining_seconds = 0]_vars

\* the executions of line 161 that have completed
DecrementsDone ==
    nSeconds - (IF pc \in {"dec161r", "dec161w"} THEN 1 ELSE 0)

\* C15: when add_time(m) returns, remaining_seconds is the constructed value
\* plus 60 * m less the decrements completed so far.
C15_NoLostUpdate ==
    [][(cpc = "add175w" /\ cpc' = "idle") =>
          remaining_seconds' = DurationSeconds(duration_minutes)
                                 + add_m * SecondsPerMinute
                                 - DecrementsDone]_vars

\* C16: pause() changes nothing while the session has not been started, is
\* finished or is cancelled.
C16_PauseNoOpWhenNotLive ==
    [][(pc = "idle" \/ stop_event \/ nFinish > 0) => paused' = paused]_vars

\* C17: once the session is finished or cancelled and its loop has ended,
\* remaining_seconds and total_seconds keep their values.
C17_ExtendRejectedWhenTerminal ==
    [][((stop_event \/ nFinish > 0) /\ pc = "done") =>
          /\ remaining_seconds' = remaining_seconds
          /\ total_seconds' = total_seconds]_vars

\* ------------------------------------------------------ idempotent cancel
\* C13: calling stop() twice leaves the fields of the engine as calling it
\* once does, and a stop() on a cancelled engine changes none of them.
C13_CancelIdempotent ==
    /\ StopFields(StopFields(EngineFields)) = StopFields(EngineFields)
    /\ stop_event => StopFields(EngineFields) = EngineFields

\* stop() has been called on a paused session in its one-second sleep, and
\* the caller is free to call it again
C13_Witness ==
    /\ stop_event
    /\ CallerIdle
    /\ running
    /\ paused
    /\ pc = "sleep160"

\* ------------------------------------------- misuse and failing callbacks
\* start() on an engine that starts its loop over
StartAgain ==
    /\ CallerIdle
    /\ pc # "idle"
    /\ nStartErrors < MaxStartErrors
    /\ nStartErrors' = nStartErrors + 1
    /\ pc' = "run143"
    /\ UNCHANGED <<engine, dec_tmp, tick_rem, callv, timev, lastEv, nFinish,
                   nTicks, evAfterStop, tickv, warnv, histv>>

\* Thread.start() (inherited at line 128, called at 371) on an engine whose
\* thread has been started: it raises RuntimeError and starts nothing
StartRejected ==
    /\ CallerIdle
    /\ pc # "idle"
    /\ nStartErrors < MaxStartErrors
    /\ nStartErrors' = nStartErrors + 1
    /\ UNCHANGED <<engine, loopv, callv, timev, lastEv, nFinish, nTicks,
                   evAfterStop, tickv, warnv, histv>>

\* a callback called by run() (lines 151, 155, 158, 165, 166) raises: run()
\* catches nothing, the exception ends the thread where it stands
CallbackRaises ==
    /\ pc \in EventPcs
    /\ pc' = "died"
    /\ UNCHANGED <<engine, dec_tmp, tick_rem, callv, timev, obsv>>

\* sessions that the caller pauses, cancels and starts again, with callbacks
\* that may raise
InitApi == InitWith(DurationsLong)

NextApi ==
    \/ LoopSteps
    \/ Sleep160(MaxSeconds)
    \/ Start
    \/ StartRejected
    \/ Pause
    \/ Stop
    \/ Join384Ended
    \/ Join384Timeout
    \/ CallbackRaises

SpecApi == InitApi /\ [][NextApi]_vars

\* C19: start() on a started engine raises an error, leaves the position of
\* the one loop and every field of the engine as they are, and a loop begins
\* only on an engine that was never started.
C19_SingleLoop ==
    [][/\ (nStartErrors' # nStartErrors)
              => (pc # "idle" /\ pc' = pc /\ EngineFields' = EngineFields)
       /\ (pc' = "run143" /\ pc # "run143")
              => (pc = "idle" /\ nStartErrors = 0)]_vars

\* start() has been rejected on a paused session waiting in its pause branch
C19_Witness ==
    /\ nStartErrors = 1
    /\ running
    /\ paused
    /\ ~stop_event
    /\ pc = "sleep146"

\* C20: when the loop thread has ended, whether or not a callback raised,
\* the running flag is cleared.
C20_RunningClearedAtEnd == (pc \in {"done", "died"}) => ~running

\* ------------------------------------------------------- tick arguments
\* C22: every on_tick(remaining, total) of the counting loop is called with
\* 0 <= remaining <= total.
C22_TickWithinTotal ==
    [][(pc = "tick158" /\ pc' = "sleep160") =>
          (0 <= tick_rem /\ tick_rem <= total_seconds)]_vars

\* ------------------------------------------------------------ termination
\* short sessions (1 s and 2 s) that are followed to their end
DurationsLive == {3, 5}

\* the sleeps a session of DurationsLive can need: its seconds, and for each
\* add_time the minute added and the decrements its store can overwrite
MaxSecondsLive == 2 + MaxExtends * (SecondsPerMinute + MaxSleepsInCall + 1)

InitLive == InitWith(DurationsLive)

\* the steps of run() such a session can take: it stays far below the
\* warning thresholds
LoopLive ==
    \/ Run143
    \/ While144
    \/ If145
    \/ Sleep146
    \/ If150
    \/ If154
    \/ Tick158Load
    \/ Tick158
    \/ Sleep160(MaxSecondsLive)
    \/ Dec161Load
    \/ Dec161Store
    \/ If163
    \/ Tick165
    \/ Fin166
    \/ Clr168

NextLive ==
    \/ LoopLive
    \/ Start
    \/ Pause
    \/ AddTime174Load(ExtendMinutesLong)
    \/ AddTimeSteps
    \/ Stop

\* both threads are scheduled: the loop thread takes its next step and its
\* sleeps end; a caller inside add_time executes its next statement
SpecLive ==
    /\ InitLive
    /\ [][NextLive]_vars
    /\ WF_vars(LoopLive)
    /\ WF_vars(AddTimeSteps)

\* once the stop event is set the loop begins no further iteration
NoIterationAfterStop == [][(stop_event /\ pc' = "if145") => pc = "if145"]_vars

\* a started loop whose stop event is set ends
CancelEndsLoop == (stop_event /\ pc # "idle") ~> (pc = "done")

\* the started session counts down to 0 and finishes
CountsDownAndFinishes ==
    /\ <>(pc # "idle" /\ remaining_seconds = 0)
    /\ <>(nFinish = 1 /\ pc = "done")

\* C21 as stated: a cancelled loop ends within the iteration it is in, and a
\* started session that is never cancelled and not paused forever reaches
\* remaining_seconds = 0 and finishes.
C21_Termination_Stated ==
    /\ NoIterationAfterStop
    /\ CancelEndsLoop
    /\ ([]<>~paused /\ []~stop_event /\ <>(pc # "idle"))
           => CountsDownAndFinishes

\* an uncancelled loop leaves the while of line 144 only at exactly 0
LeavesAtZero ==
    [][(pc = "while144" /\ pc' = "if163" /\ ~stop_event)
           => remaining_seconds = 0]_vars

\* from every state of a started session a state follows in which it has
\* finished, is cancelled or is paused: a session that is never cancelled
\* and from some moment on stays resumed finishes
FinishesUnlessHeld ==
    (pc # "idle") ~> ((nFinish = 1 /\ pc = "done") \/ stop_event \/ paused)

\* C21: a cancelled loop ends within the iteration it is in, and a started
\* session that is never cancelled and from some moment on stays resumed
\* reaches remaining_seconds = 0 and finishes.
C21_Termination ==
    /\ NoIterationAfterStop
    /\ CancelEndsLoop
    /\ LeavesAtZero
    /\ FinishesUnlessHeld

\* a session that was paused, resumed and extended has finished
C21_Witness ==
    /\ pc = "done"
    /\ nFinish = 1
    /\ nExtends = 1
    /\ nSeconds > SecondsPerMinute
    /\ ~paused
    /\ ~stop_event

====
